---- MODULE Spec2Model ----
(***************************************************************************)
(* Model of medical_compliance_agent.py: the interactive main loop, the    *)
(* four-node LangGraph workflow (planner, data_loader, autogen_auditor,    *)
(* compiler) and the AutoGen group chat the auditor node runs.             *)
(*                                                                         *)
(* Text is modelled as a sequence of tokens.  A token is either a single   *)
(* character (user input), a whitespace run, a separator, or a word that   *)
(* contains no part of a separator, marker or sentinel; substring tests,   *)
(* split, replace, strip, lower and join therefore work token by token.    *)
(***************************************************************************)
EXTENDS Integers, Sequences, FiniteSets, TLC

\* ------------------------------------------------------------------ bounds
\* pipeline runs one interactive session may start
MaxRuns == 2

\* ------------------------------------------------------------- text model
Whitespace == {" ", "\n", "\n\n", "\n    "}

Contains(s, tok) == \E i \in 1..Len(s) : s[i] = tok

RECURSIVE LStrip(_)
LStrip(s) == IF s # <<>> /\ Head(s) \in Whitespace THEN LStrip(Tail(s)) ELSE s

RECURSIVE RStrip(_)
RStrip(s) ==
  IF s # <<>> /\ s[Len(s)] \in Whitespace THEN RStrip(SubSeq(s, 1, Len(s) - 1)) ELSE s

\* str.strip()
Strip(s) == RStrip(LStrip(s))

LowerChar(c) ==
  CASE c = "Q" -> "q" [] c = "U" -> "u" [] c = "I" -> "i" [] c = "T" -> "t"
    [] c = "E" -> "e" [] c = "X" -> "x" [] c = "A" -> "a" [] OTHER -> c

\* str.lower()
Lower(s) == [i \in 1..Len(s) |-> LowerChar(s[i])]

\* str.replace(tok, "")
Replace(s, tok) == SelectSeq(s, LAMBDA t : t # tok)

FirstIndex(s, tok) == CHOOSE i \in 1..Len(s) : s[i] = tok /\ \A j \in 1..(i - 1) : s[j] # tok

\* str.split(",")
RECURSIVE Split(_)
Split(s) ==
  IF ~Contains(s, ",") THEN <<s>>
  ELSE LET i == FirstIndex(s, ",")
       IN  <<SubSeq(s, 1, i - 1)>> \o Split(SubSeq(s, i + 1, Len(s)))

\* sep.join(parts)
RECURSIVE Join(_, _)
Join(parts, sep) ==
  IF parts = <<>> THEN <<>>
  ELSE IF Len(parts) = 1 THEN parts[1]
  ELSE parts[1] \o sep \o Join(Tail(parts), sep)

\* ------------------------------------------------------------ environment
\* lines the user may type at the prompt
InputLines ==
  { <<"q", "u", "i", "t">>,
    <<"E", "X", "I", "T">>,
    <<" ", "Q", "u", "i", "t", " ">>,
    <<>>,
    <<" ">>,
    <<"A", "d", "d">> }

\* raw classification texts the completion service may return to the planner
RawTexts ==
  { <<"IEC", " ", "62304">>,
    <<"IEC", " ", "62304", ",", " ", "ISO", " ", "14971", ",", " ", "ISO", " ", "13485">>,
    <<"ISO", " ", "13485", ",", "ISO", " ", "13485">>,
    <<" ", "ISO", " ", "14971", ",", " ">>,
    <<"IEC", " ", "62304", ",", "EN", " ", "62304">>,
    <<"N/A">> }

\* ------------------------------------------------------------------ state
VARIABLES
  cli,            \* position of the __main__ loop
  typed,          \* the line last returned by input()
  node,           \* LangGraph node about to run
  state,          \* the ComplianceState threaded through the nodes
  chat_status,    \* "none" | "running" | "done": the group chat of the auditor node
  chat_history,   \* groupchat.messages = chat_result.chat_history of the run's chat
                  \* (kept after the node returned, until the next run starts)
  file_present,   \* whether test_medical_spec.md exists
  run_calls,      \* chain.invoke calls (planner, SRS, RMF) issued since app.invoke
                  \* was entered, with the text each was given (and, for the
                  \* planner, the text that came back)
  executed,       \* nodes that completed since app.invoke was entered
  printed,        \* final report written to stdout by the latest step (<<>> if none)
  runs            \* pipeline runs started so far

vars == <<cli, typed, node, state, chat_status, chat_history, file_present,
          run_calls, executed, printed, runs>>

\* ---------------------------------------------------------------- workflow
Nodes == {"planner", "data_loader", "autogen_auditor", "compiler"}

EntryPoint == "planner"

\* a workflow whose compiler has no edge to END
Edge_compiler_dangling ==
  [planner |-> "data_loader", data_loader |-> "autogen_auditor",
   autogen_auditor |-> "compiler", compiler |-> "idle"]

\* a workflow that audits before it loads the documents
Edge_audits_first ==
  [planner |-> "autogen_auditor", autogen_auditor |-> "data_loader",
   data_loader |-> "compiler", compiler |-> "END"]

\* a workflow whose planner edge bypasses the data loader
Edge_skips_loader ==
  [planner |-> "autogen_auditor", data_loader |-> "autogen_auditor",
   autogen_auditor |-> "compiler", compiler |-> "END"]

Edge ==
  [planner |-> "data_loader", data_loader |-> "autogen_auditor",
   autogen_auditor |-> "compiler", compiler |-> "END"]

\* a merge that replaces the whole state by the node's return value
Merge_replaces(old, update) ==
  [k \in DOMAIN old |-> IF k \in DOMAIN update THEN update[k] ELSE <<>>]

\* a node's partial update applied to the state: the messages channel is
\* reduced with operator.add, every other channel is overwritten
Merge(old, update) ==
  [k \in DOMAIN old |->
     IF k \in DOMAIN update
     THEN IF k = "messages" THEN old[k] \o update[k] ELSE update[k]
     ELSE old[k]]

\* a run that starts from the state the previous run left behind
initial_state_keeps(input) ==
  IF runs = 0
  THEN [user_request |-> input, impacted_standards |-> <<>>, loaded_documents |-> <<>>,
        audit_findings |-> <<>>, final_report_content |-> <<>>, messages |-> <<>>]
  ELSE [state EXCEPT !.user_request = input]

initial_state(input) ==
  [user_request |-> input, impacted_standards |-> <<>>, loaded_documents |-> <<>>,
   audit_findings |-> <<>>, final_report_content |-> <<>>, messages |-> <<>>]

\* an exception that is swallowed, so that the node runs again
Raise_retries == UNCHANGED <<node, cli>>

\* an exception leaves the node, app.invoke and the while loop: the process dies
Raise ==
  /\ node' = "raised"
  /\ cli' = "crashed"

\* --------------------------------------------------------------- main loop
\* input(...).strip()
user_input_of(line) == Strip(line)

\* a comparison that forgets lower()
is_quit_case_sensitive(input) == input \in {<<"q", "u", "i", "t">>, <<"e", "x", "i", "t">>}

\* user_input.lower() in ['quit', 'exit']
is_quit(input) == Lower(input) \in {<<"q", "u", "i", "t">>, <<"e", "x", "i", "t">>}

\* one iteration of the while loop up to app.invoke
ReadInput(line) ==
  /\ cli = "prompt"
  /\ typed' = line
  /\ IF is_quit(user_input_of(line))
     THEN /\ cli' = "exited"
          /\ UNCHANGED <<node, state, chat_status, chat_history, run_calls, executed, runs>>
     ELSE IF user_input_of(line) = <<>>
     THEN UNCHANGED <<cli, node, state, chat_status, chat_history, run_calls, executed, runs>>
     ELSE /\ runs < MaxRuns
          /\ runs' = runs + 1
          /\ state' = initial_state(user_input_of(line))
          /\ cli' = "invoke"
          /\ node' = EntryPoint
          /\ chat_status' = "none"
          /\ chat_history' = <<>>
          /\ run_calls' = <<>>
          /\ executed' = <<>>
  /\ printed' = <<>>
  /\ UNCHANGED file_present

\* the three prints after app.invoke returned
PrintReport ==
  /\ cli = "invoke"
  /\ node = "END"
  /\ printed' = state.final_report_content
  /\ cli' = "prompt"
  /\ node' = "idle"
  /\ UNCHANGED <<typed, state, chat_status, chat_history, file_present,
                 run_calls, executed, runs>>

\* ----------------------------------------------------------------- planner
\* a list that drops empty pieces
standards_list_drops_empty(content) ==
  SelectSeq([i \in 1..Len(Split(content)) |-> Strip(Split(content)[i])],
            LAMBDA piece : piece # <<>>)

\* [s.strip() for s in result.content.split(",")]
standards_list(content) == [i \in 1..Len(Split(content)) |-> Strip(Split(content)[i])]

orchestrator_planner_node ==
  /\ cli = "invoke"
  /\ node = "planner"
  /\ \/ \E content \in RawTexts :
          /\ run_calls' = Append(run_calls, [to |-> "planner", input |-> state.user_request,
                                             reply |-> content])
          /\ state' = Merge(state, [impacted_standards |-> standards_list(content)])
          /\ executed' = Append(executed, "planner")
          /\ node' = Edge["planner"]
          /\ UNCHANGED cli
     \/ /\ run_calls' = Append(run_calls, [to |-> "planner", input |-> state.user_request])
        /\ Raise
        /\ UNCHANGED <<state, executed>>
  /\ printed' = <<>>
  /\ UNCHANGED <<typed, chat_status, chat_history, file_present, runs>>

\* ------------------------------------------------------------- data loader
\* content of test_medical_spec.md when it exists
FileText == <<"spec-file-text">>

\* texts the completion service may return for the two generated documents
SRSTexts == {<<"SRS-text">>}

RMFTexts == {<<"RMF-text">>}

\* a membership test that requires every standard to carry the marker
any_marker_all(marker, standards) ==
  \A i \in 1..Len(standards) : Contains(standards[i], marker)

any_marker(marker, standards) == \E i \in 1..Len(standards) : Contains(standards[i], marker)

\* a fallback that leaves technical_input at its initial ""
technical_input_stays_empty(st) == IF file_present THEN FileText ELSE <<>>

technical_input_of(st) == IF file_present THEN FileText ELSE st.user_request

combined_input_of(st) ==
  <<"Technical Specification:\n">> \o technical_input_of(st)
    \o <<"\n\nUser Request:\n">> \o st.user_request

\* keys of the docs dict built by the three if-statements
doc_keys(standards) ==
  (IF any_marker("62304", standards) THEN {"SRS"} ELSE {})
    \cup (IF any_marker("14971", standards) THEN {"RMF"} ELSE {})
    \cup (IF any_marker("13485", standards) THEN {"QMS"} ELSE {})

srs_call(st) == [to |-> "SRS", input |-> combined_input_of(st)]

rmf_call(st) == [to |-> "RMF", input |-> combined_input_of(st)]

\* one generation call for every standard that carries the marker
doc_requests_per_standard(k, st) ==
  LET hits == SelectSeq(st.impacted_standards,
                        LAMBDA x : Contains(x, IF k = "SRS" THEN "62304" ELSE "14971"))
  IN  [i \in 1..Len(hits) |-> IF k = "SRS" THEN srs_call(st) ELSE rmf_call(st)]

\* the generation call the if-statement of document k issues, if any
doc_requests(k, st) ==
  IF k \in doc_keys(st.impacted_standards)
  THEN <<IF k = "SRS" THEN srs_call(st) ELSE rmf_call(st)>>
  ELSE <<>>

data_loading_node ==
  /\ cli = "invoke"
  /\ node = "data_loader"
  /\ LET standards == state.impacted_standards
         keys == doc_keys(standards)
         srs == doc_requests("SRS", state)
         rmf == doc_requests("RMF", state)
     IN  \/ \E s \in SRSTexts, r \in RMFTexts :
              /\ run_calls' = run_calls \o srs \o rmf
              /\ state' = Merge(state,
                    [loaded_documents |->
                       [k \in keys |-> CASE k = "SRS" -> s
                                         [] k = "RMF" -> r
                                         [] OTHER -> <<"QMS documentation placeholder">>]])
              /\ executed' = Append(executed, "data_loader")
              /\ node' = Edge["data_loader"]
              /\ UNCHANGED cli
         \/ /\ "SRS" \in keys
            /\ run_calls' = run_calls \o srs
            /\ Raise
            /\ UNCHANGED <<state, executed>>
         \/ /\ "RMF" \in keys
            /\ run_calls' = run_calls \o srs \o rmf
            /\ Raise
            /\ UNCHANGED <<state, executed>>
  /\ printed' = <<>>
  /\ UNCHANGED <<typed, chat_status, chat_history, file_present, runs>>

\* ------------------------------------------------------ auditor group chat
SENTINEL == "AUDIT_COMPLETE"

user_proxy == "Compliance_Manager"

Auditors == {"IEC62304_Auditor", "ISO14971_Auditor", "ISO13485_Auditor"}

\* GroupChat(agents=[...])
Agents == {user_proxy} \cup Auditors

\* GroupChat(max_round=4)
max_round == 4

\* is_termination_msg of the user proxy
is_termination_msg(content) == Contains(content, SENTINEL)

\* texts the completion service may return for an auditor's turn
Verdict(a) ==
  CASE a = "IEC62304_Auditor" -> "5.1 COMPLIANT"
    [] a = "ISO14971_Auditor" -> "RMF NON-COMPLIANT"
    [] OTHER -> "4.2 COMPLIANT"

ReplyTexts(a) == { <<Verdict(a)>>, <<" ", Verdict(a), " ", SENTINEL, "\n">> }

\* insertion order of the docs dict
DocOrder == <<"SRS", "RMF", "QMS">>

loaded_docs_text(docs) ==
  LET ks == SelectSeq(DocOrder, LAMBDA k : k \in DOMAIN docs)
  IN  Join([i \in 1..Len(ks) |-> <<"--- Document: ", ks[i], " ---\n">> \o docs[ks[i]]],
           <<"\n\n">>)

\* a prompt that does not spell out the sentinel
audit_prompt_without_sentinel(st) ==
  <<"\n    ", "Please conduct a compliance audit for only the following standards: ">>
    \o Join(st.impacted_standards, <<",", " ">>)
    \o <<".", "\n    \n    ", "Here is the documentation to review:", "\n    ">>
    \o loaded_docs_text(st.loaded_documents)
    \o <<"\n    \n    ", "Auditors, be concise. [...]", "\n    ">>

audit_prompt(st) ==
  <<"\n    ", "Please conduct a compliance audit for only the following standards: ">>
    \o Join(st.impacted_standards, <<",", " ">>)
    \o <<".", "\n    \n    ", "Here is the documentation to review:", "\n    ">>
    \o loaded_docs_text(st.loaded_documents)
    \o <<"\n    \n    ", "Auditors, be concise. [...] End with \"", SENTINEL, "\".", "\n    ">>

\* a cap that lets one more message in
after_append_off_by_one(history) == IF Len(history) > 4 THEN "done" ELSE "running"

\* the chat stops after the message of round max_round - 1 has been appended
after_append(history) == IF Len(history) >= max_round THEN "done" ELSE "running"

\* user_proxy.initiate_chat(manager, message=audit_prompt): round 0 holds the prompt
initiate_chat ==
  /\ cli = "invoke"
  /\ node = "autogen_auditor"
  /\ chat_status = "none"
  /\ chat_history' = <<[name |-> user_proxy, content |-> audit_prompt(state)]>>
  /\ chat_status' = after_append(chat_history')
  /\ printed' = <<>>
  /\ UNCHANGED <<cli, typed, node, state, file_present, run_calls, executed, runs>>

\* One round of the group chat.  GroupChat is built without a speaker
\* selection method, so the manager asks the completion service to name the
\* next speaker: any of the four agents, repeats included.  An auditor
\* replies with a text of the completion service.  The user proxy
\* (human_input_mode NEVER, no model, no code execution) ends the chat when
\* the last message satisfies is_termination_msg and otherwise sends its
\* empty default reply.
chat_round(speaker) ==
  /\ cli = "invoke"
  /\ node = "autogen_auditor"
  /\ chat_status = "running"
  /\ IF speaker = user_proxy
     THEN IF is_termination_msg(chat_history[Len(chat_history)].content)
          THEN \* the proxy gives no reply and the chat ends
               /\ chat_status' = "done"
               /\ UNCHANGED chat_history
          ELSE \* the proxy has no model and no code executor: default auto reply ""
               /\ chat_history' = Append(chat_history, [name |-> speaker, content |-> <<>>])
               /\ chat_status' = after_append(chat_history')
     ELSE \E text \in ReplyTexts(speaker) :
            /\ chat_history' = Append(chat_history, [name |-> speaker, content |-> text])
            /\ chat_status' = after_append(chat_history')
  /\ printed' = <<>>
  /\ UNCHANGED <<cli, typed, node, state, file_present, run_calls, executed, runs>>

\* the completion service fails during a round (speaker selection or reply)
chat_round_fails ==
  /\ cli = "invoke"
  /\ node = "autogen_auditor"
  /\ chat_status = "running"
  /\ Raise
  /\ printed' = <<>>
  /\ UNCHANGED <<typed, state, chat_status, chat_history, file_present,
                 run_calls, executed, runs>>

NoSummary == <<"No summary found.">>

\* a scan in chronological order: the first sentinel-bearing message wins
RECURSIVE scan_forward(_, _)
scan_forward(history, i) ==
  IF i = 0 THEN <<"No summary found.">>
  ELSE LET k == Len(history) - i + 1
       IN  IF Contains(history[k].content, "AUDIT_COMPLETE") THEN history[k].content
           ELSE scan_forward(history, i - 1)

\* a scan that falls back to the last message when no message carries the sentinel
RECURSIVE scan_reversed_or_last(_, _)
scan_reversed_or_last(history, i) ==
  IF i = 0 THEN (IF history = <<>> THEN <<"No summary found.">>
                 ELSE history[Len(history)].content)
  ELSE IF Contains(history[i].content, "AUDIT_COMPLETE") THEN history[i].content
  ELSE scan_reversed_or_last(history, i - 1)

\* next((msg['content'] for msg in reversed(history) if SENTINEL in msg['content']), default)
RECURSIVE scan_reversed(_, _)
scan_reversed(history, i) ==
  IF i = 0 THEN NoSummary
  ELSE IF Contains(history[i].content, SENTINEL) THEN history[i].content
  ELSE scan_reversed(history, i - 1)

final_summary_msg(history) == scan_reversed(history, Len(history))

finding_of(history) ==
  [stage |-> "Stage 2 Audit Loop",
   details |-> Strip(Replace(final_summary_msg(history), SENTINEL))]

\* an update that records one finding per message of the conversation
audit_update_per_message(history) ==
  [audit_findings |->
     [i \in 1..Len(history) |->
        [stage |-> "Stage 2 Audit Loop",
         details |-> Strip(Replace(history[i].content, "AUDIT_COMPLETE"))]],
   messages |-> <<history[Len(history)].content>>]

\* an update that logs every turn of the conversation
audit_update_logs_transcript(history) ==
  [audit_findings |-> <<finding_of(history)>>,
   messages |-> [i \in 1..Len(history) |-> history[i].content]]

\* the update the node returns
audit_update(history) ==
  [audit_findings |-> <<finding_of(history)>>, messages |-> <<final_summary_msg(history)>>]

\* the tail of autogen_auditor_node: extraction and the returned update
autogen_auditor_node ==
  /\ cli = "invoke"
  /\ node = "autogen_auditor"
  /\ chat_status = "done"
  /\ state' = Merge(state, audit_update(chat_history))
  /\ executed' = Append(executed, "autogen_auditor")
  /\ node' = Edge["autogen_auditor"]
  /\ printed' = <<>>
  /\ UNCHANGED <<cli, typed, chat_status, chat_history, file_present, run_calls, runs>>

\* ----------------------------------------------------------------- compiler
\* a bulleted list rendered newest first
findings_text_reversed(findings) ==
  Join([i \in 1..Len(findings) |-> <<"- ">> \o findings[Len(findings) + 1 - i].details],
       <<"\n">>)

findings_text(findings) ==
  Join([i \in 1..Len(findings) |-> <<"- ">> \o findings[i].details], <<"\n">>)

\* a report that is appended to the one already in the state
report_template_appends(st) ==
  st.final_report_content
    \o <<"\n# Medical Device Compliance Audit Report\n\n**Date:** 2026-01-27\n**Trigger:** User Request - \"">>
    \o st.user_request
    \o <<"\"\n**Scope:** ">>
    \o Join(st.impacted_standards, <<",", " ">>)
    \o <<"\n\n## Executive Summary\n[...]\n\n## Audit Findings Summary\n\n">>
    \o findings_text(st.audit_findings)
    \o <<"\n\n## Next Actions\n[...]\n    ">>

report_template(st) ==
  <<"\n# Medical Device Compliance Audit Report\n\n**Date:** 2026-01-27\n**Trigger:** User Request - \"">>
    \o st.user_request
    \o <<"\"\n**Scope:** ">>
    \o Join(st.impacted_standards, <<",", " ">>)
    \o <<"\n\n## Executive Summary\n[...]\n\n## Audit Findings Summary\n\n">>
    \o findings_text(st.audit_findings)
    \o <<"\n\n## Next Actions\n[...]\n    ">>

report_compiler_node ==
  /\ cli = "invoke"
  /\ node = "compiler"
  /\ state' = Merge(state, [final_report_content |-> report_template(state)])
  /\ executed' = Append(executed, "compiler")
  /\ node' = Edge["compiler"]
  /\ printed' = <<>>
  /\ UNCHANGED <<cli, typed, chat_status, chat_history, file_present, run_calls, runs>>

Init ==
  /\ runs = 0
  /\ cli = "prompt"
  /\ typed = <<>>
  /\ node = "idle"
  /\ state = initial_state(<<>>)
  /\ chat_status = "none"
  /\ chat_history = <<>>
  /\ file_present \in BOOLEAN
  /\ run_calls = <<>>
  /\ executed = <<>>
  /\ printed = <<>>

Next ==
  \/ \E line \in InputLines : ReadInput(line)
  \/ orchestrator_planner_node
  \/ data_loading_node
  \/ initiate_chat
  \/ \E speaker \in Agents : chat_round(speaker)
  \/ chat_round_fails
  \/ autogen_auditor_node
  \/ report_compiler_node
  \/ PrintReport

Spec == Init /\ [][Next]_vars

\* every step of the sequential program is taken once it is reached: a node
\* that is entered runs, a completion call returns or raises, a report that
\* is ready is printed
FairSpec ==
  /\ Spec
  /\ WF_vars(orchestrator_planner_node)
  /\ WF_vars(data_loading_node)
  /\ WF_vars(initiate_chat)
  /\ WF_vars(\E speaker \in Agents : chat_round(speaker))
  /\ WF_vars(autogen_auditor_node)
  /\ WF_vars(report_compiler_node)
  /\ WF_vars(PrintReport)

\* ------------------------------------------- extraction on given transcripts
\* turns a scheduler transcript may consist of
SyntheticTurns ==
  { [name |-> user_proxy, content |-> <<"Please audit.">>],
    [name |-> "IEC62304_Auditor", content |-> <<"5.1 COMPLIANT">>],
    [name |-> "ISO14971_Auditor", content |-> <<" ", "RMF NON-COMPLIANT", " ", SENTINEL, "\n">>],
    [name |-> "ISO13485_Auditor", content |-> <<"4.2 COMPLIANT">>] }

Transcripts == UNION { [1..n -> SyntheticTurns] : n \in 1..max_round }

\* the auditor node at the point where initiate_chat has returned a transcript
InitExtract ==
  /\ cli = "invoke"
  /\ typed = <<"A", "d", "d">>
  /\ node = "autogen_auditor"
  /\ state = [initial_state(<<"A", "d", "d">>) EXCEPT
                !.impacted_standards = standards_list(<<"IEC", " ", "62304">>),
                !.loaded_documents = [k \in {"SRS"} |-> <<"SRS-text">>]]
  /\ chat_status = "done"
  /\ chat_history \in Transcripts
  /\ file_present \in BOOLEAN
  /\ run_calls = <<[to |-> "planner", input |-> state.user_request,
                     reply |-> <<"IEC", " ", "62304">>], srs_call(state)>>
  /\ executed = <<"planner", "data_loader">>
  /\ printed = <<>>
  /\ runs = 1

NextExtract ==
  \/ autogen_auditor_node
  \/ report_compiler_node
  \/ PrintReport

SpecExtract == InitExtract /\ [][NextExtract]_vars

\* ------------------------------------------- the compiler on given states
\* findings a state handed to the compiler may hold
SampleFindings ==
  { [stage |-> "Stage 2 Audit Loop", details |-> <<"5.1 COMPLIANT">>],
    [stage |-> "Stage 2 Audit Loop", details |-> <<"RMF NON-COMPLIANT">>],
    [stage |-> "Stage 2 Audit Loop", details |-> <<>>] }

CompilerInputs ==
  { [user_request |-> r, impacted_standards |-> standards_list(c), loaded_documents |-> d,
     audit_findings |-> f, final_report_content |-> <<>>, messages |-> m] :
      r \in {<<"A", "d", "d">>, <<"Add Bluetooth module">>},
      c \in RawTexts,
      d \in {<<>>, [k \in {"QMS"} |-> <<"QMS documentation placeholder">>]},
      f \in UNION { [1..n -> SampleFindings] : n \in 0..2 },
      m \in {<<>>, <<NoSummary>>} }

\* report_compiler_node about to be called on a given state
InitCompile ==
  /\ cli = "invoke"
  /\ state \in CompilerInputs
  /\ typed = state.user_request
  /\ node = "compiler"
  /\ chat_status = "none"
  /\ chat_history = <<>>
  /\ file_present = FALSE
  /\ run_calls = <<>>
  /\ executed = <<"planner", "data_loader", "autogen_auditor">>
  /\ printed = <<>>
  /\ runs = 1

\* a second call of report_compiler_node, on the state the first call produced
report_compiler_node_again ==
  /\ cli = "invoke"
  /\ node = "END"
  /\ Len(executed) = 4
  /\ state' = Merge(state, [final_report_content |-> report_template(state)])
  /\ executed' = Append(executed, "compiler")
  /\ printed' = <<>>
  /\ UNCHANGED <<cli, typed, node, chat_status, chat_history, file_present, run_calls, runs>>

NextCompile ==
  \/ report_compiler_node
  \/ report_compiler_node_again
  \/ PrintReport

SpecCompile == InitCompile /\ [][NextCompile]_vars

\* ================================================================== claims
PipelineOrder == <<"planner", "data_loader", "autogen_auditor", "compiler">>

IsPrefix(p, q) == Len(p) <= Len(q) /\ \A i \in 1..Len(p) : p[i] = q[i]

\* C1: in every run the completed stages form a prefix of planner, data
\* loader, audit coordinator, report compiler (each once, none skipped, none
\* re-entered), the stage about to run is the next one of that order, and the
\* terminal state is reached only after all four completed.
C1_StrictOrder ==
  /\ IsPrefix(executed, PipelineOrder)
  /\ node \in Nodes => node = PipelineOrder[Len(executed) + 1]
  /\ node = "END" => executed = PipelineOrder

C1_Witness == node = "END" /\ executed = PipelineOrder /\ runs = 2

Marker(k) == CASE k = "SRS" -> "62304" [] k = "RMF" -> "14971" [] OTHER -> "13485"

loader_ran == Len(executed) >= 2

\* C2: once the document loader has run, the keys of loaded_documents lie in
\* {SRS, RMF, QMS} and a key is present exactly when some impacted standard
\* contains its marker.
C2_LoadedKeys ==
  loader_ran =>
    /\ DOMAIN state.loaded_documents \subseteq {"SRS", "RMF", "QMS"}
    /\ \A k \in {"SRS", "RMF", "QMS"} :
         k \in DOMAIN state.loaded_documents
           <=> \E i \in 1..Len(state.impacted_standards) :
                 \E j \in 1..Len(state.impacted_standards[i]) :
                   state.impacted_standards[i][j] = Marker(k)

C2_Witness ==
  /\ loader_ran
  /\ DOMAIN state.loaded_documents = {"SRS", "RMF", "QMS"}
  /\ Len(state.impacted_standards) = 3

generation_calls == SelectSeq(run_calls, LAMBDA c : c.to \in {"SRS", "RMF"})

\* C3 as stated: with the specification file absent, every document
\* generation call receives the raw user_request as its input.
C3_InputIsRawRequest ==
  ~file_present =>
    \A i \in 1..Len(generation_calls) : generation_calls[i].input = state.user_request

\* C3: with the specification file absent the loader falls back to the
\* request as technical input, so every document generation call receives
\* the two-slot template with user_request in both slots; the loader raises
\* only when a generation call does.
C3_InputIsTemplateOfRequest ==
  ~file_present =>
    /\ \A i \in 1..Len(generation_calls) :
         generation_calls[i].input =
           <<"Technical Specification:\n">> \o state.user_request
             \o <<"\n\nUser Request:\n">> \o state.user_request
    /\ (node = "raised" /\ executed = <<"planner">>) => generation_calls # <<>>

C3_Witness == ~file_present /\ loader_ran /\ Len(generation_calls) = 2

auditor_ran == Len(executed) >= 3

HasSentinel(m) == \E j \in 1..Len(m.content) : m.content[j] = "AUDIT_COMPLETE"

\* C4: when some message of the transcript carries the sentinel, the finding
\* is the chronologically last such message, whoever sent it, with the
\* sentinel removed and the surrounding whitespace trimmed.
C4_LastSentinelWins ==
  (auditor_ran /\ \E i \in 1..Len(chat_history) : HasSentinel(chat_history[i])) =>
    \E i \in 1..Len(chat_history) :
      /\ HasSentinel(chat_history[i])
      /\ \A j \in (i + 1)..Len(chat_history) : ~HasSentinel(chat_history[j])
      /\ LET d == state.audit_findings[1].details
             c == chat_history[i].content
         IN  /\ \A j \in 1..Len(d) : d[j] # "AUDIT_COMPLETE"
             /\ d # <<>> => d[1] \notin Whitespace /\ d[Len(d)] \notin Whitespace
             /\ \E a, b \in 0..Len(c) :
                  /\ a + b <= Len(c)
                  /\ \A j \in (1..a) \cup ((Len(c) - b + 1)..Len(c)) :
                       c[j] \in Whitespace \cup {"AUDIT_COMPLETE"}
                  /\ d = SelectSeq(SubSeq(c, a + 1, Len(c) - b),
                                   LAMBDA t : t # "AUDIT_COMPLETE")

\* two auditors' replies carry the sentinel with different content and the
\* later one became the finding
C4_Witness ==
  /\ auditor_ran
  /\ \E i, j \in 2..Len(chat_history) :
       /\ i < j
       /\ HasSentinel(chat_history[i]) /\ HasSentinel(chat_history[j])
       /\ chat_history[i].name # chat_history[j].name
       /\ \A k \in (j + 1)..Len(chat_history) : ~HasSentinel(chat_history[k])
       /\ state.audit_findings[1].details = <<Verdict(chat_history[j].name)>>

C6_RoundCap ==
  /\ Len(chat_history) <= 4
  /\ Len(chat_history) = 4 => chat_status = "done"

\* the cap ended a conversation none of whose replies carried the sentinel,
\* and the finding was extracted from the turns taken
C6_Witness ==
  /\ Len(chat_history) = 4
  /\ chat_status = "done"
  /\ \A i \in 2..4 : ~HasSentinel(chat_history[i])
  /\ auditor_ran
  /\ Len(state.audit_findings) = 1

\* C7 as stated: when the conversation has ended, each of the three
\* specialist roles has taken at least one turn.
C7_EachSpecialistSpeaks ==
  chat_status = "done" =>
    \A a \in {"IEC62304_Auditor", "ISO14971_Auditor", "ISO13485_Auditor"} :
      \E i \in 1..Len(chat_history) : chat_history[i].name = a

run_completed == node = "END" \/ (node = "idle" /\ runs > 0)

\* C8: a run that reached the terminal state has exactly one entry in
\* audit_findings, labelled "Stage 2 Audit Loop", however many specialists
\* spoke and however many turns were taken.
C8_OneFinding ==
  run_completed =>
    /\ Len(state.audit_findings) = 1
    /\ state.audit_findings[1].stage = "Stage 2 Audit Loop"

C8_Witness ==
  /\ node = "END"
  /\ Len(chat_history) = 4
  /\ Cardinality({chat_history[i].name : i \in 1..Len(chat_history)}) = 4
  /\ Len(state.audit_findings) = 1

calls_to(x) == Len(SelectSeq(run_calls, LAMBDA c : c.to = x))

C9_Fatal ==
  /\ node = "raised" =>
       /\ cli = "crashed"
       /\ state.audit_findings = <<>>
       /\ state.final_report_content = <<>>
       /\ printed = <<>>
       /\ ~IsPrefix(PipelineOrder, executed)
  /\ \A x \in {"planner", "SRS", "RMF"} : calls_to(x) <= 1

\* C9: a failed external call ends the run and the process: the call is
\* issued once and never again, no step follows the failure (no later stage,
\* no retry), no audit finding is recorded and no report is produced.
C9_FailureIsFatal == []C9_Fatal /\ [][node # "raised"]_vars

\* a failure in the middle of the conversation: turns were taken, none is salvaged
C9_Witness ==
  /\ node = "raised"
  /\ executed = <<"planner", "data_loader">>
  /\ Len(chat_history) = 3
  /\ state.audit_findings = <<>>

QuitWords == {<<"q", "u", "i", "t">>, <<"e", "x", "i", "t">>}

\* C10 as stated: a line equal to quit or exit in any letter case ends the
\* process without a run, an empty line starts no run and prompts again, and
\* every other line starts exactly one run, which completes and whose report
\* is printed before the next prompt.
C10_AsStated ==
  /\ [][cli = "prompt" =>
          /\ Lower(typed') \in QuitWords => (cli' = "exited" /\ runs' = runs)
          /\ typed' = <<>> => (cli' = "prompt" /\ runs' = runs)
          /\ (Lower(typed') \notin QuitWords /\ typed' # <<>>) =>
               (cli' = "invoke" /\ runs' = runs + 1)]_vars
  /\ [][(cli = "invoke" /\ cli' # "invoke") =>
          /\ cli' = "prompt"
          /\ executed = PipelineOrder
          /\ printed' = state.final_report_content]_vars

\* C10: the line is first stripped of surrounding whitespace; a stripped line
\* equal to quit or exit in any letter case ends the process without a run, a
\* stripped line that is empty starts no run and prompts again, and every
\* other line starts exactly one run on the stripped text.  A run that
\* reaches the terminal state has its report printed before the next prompt;
\* a run in which an external call fails ends the process with no report.
C10_StrippedInput ==
  /\ [][cli = "prompt" =>
          LET u == RStrip(LStrip(typed'))
          IN  /\ Lower(u) \in QuitWords =>
                   (cli' = "exited" /\ runs' = runs /\ state' = state)
              /\ u = <<>> => (cli' = "prompt" /\ runs' = runs /\ state' = state)
              /\ (Lower(u) \notin QuitWords /\ u # <<>>) =>
                   /\ cli' = "invoke"
                   /\ runs' = runs + 1
                   /\ node' = "planner"
                   /\ state'.user_request = u]_vars
  /\ [][(cli = "invoke" /\ cli' # "invoke") =>
          \/ /\ cli' = "prompt"
             /\ node = "END"
             /\ executed = PipelineOrder
             /\ printed' = state.final_report_content
             /\ printed' # <<>>
          \/ /\ cli' = "crashed"
             /\ node' = "raised"
             /\ printed' = <<>>]_vars

\* one full run was printed, then a padded Quit ended the process
C10_Witness ==
  /\ cli = "exited"
  /\ typed = <<" ", "Q", "u", "i", "t", " ">>
  /\ runs = 1
  /\ executed = PipelineOrder
  /\ state.final_report_content # <<>>

OccursAt(r, t, p) == p >= 1 /\ p + Len(t) - 1 <= Len(r) /\ SubSeq(r, p, p + Len(t) - 1) = t

\* the least position from which t occurs in r at or after position from, 0 if none
FirstOcc(r, t, from) ==
  IF \E p \in from..(Len(r) + 1) : OccursAt(r, t, p)
  THEN CHOOSE p \in from..(Len(r) + 1) :
         OccursAt(r, t, p) /\ \A q \in from..(p - 1) : ~OccursAt(r, t, q)
  ELSE 0

\* whether the bullets of findings k.. occur in r, in order, at or after from
RECURSIVE BulletsFrom(_, _, _, _)
BulletsFrom(r, findings, k, from) ==
  IF k > Len(findings) THEN TRUE
  ELSE LET b == <<"- ">> \o findings[k].details
           p == FirstOcc(r, b, from)
       IN  p # 0 /\ BulletsFrom(r, findings, k + 1, p + Len(b))

compiler_ran == Len(executed) >= 4

\* C12: the rendered report contains the request text, after it the scope
\* line (the impacted standards joined with ", "), and after that one bullet
\* per audit finding, in the order of audit_findings.
C12_ReportLayout ==
  compiler_ran =>
    LET r == state.final_report_content
        p1 == FirstOcc(r, state.user_request, 1)
        scope == <<"\"\n**Scope:** ">> \o Join(state.impacted_standards, <<",", " ">>)
        p2 == FirstOcc(r, scope, p1 + Len(state.user_request))
    IN  /\ p1 # 0
        /\ p2 # 0
        /\ BulletsFrom(r, state.audit_findings, 1, p2 + Len(scope))

C12_Witness ==
  /\ compiler_ran
  /\ Len(state.audit_findings) = 2
  /\ state.audit_findings[1].details # state.audit_findings[2].details
  /\ Len(state.impacted_standards) = 3

planner_ran == Len(executed) >= 1

\* the positions of the commas of a text, in increasing order, framed by 0 and Len + 1
Cuts(raw) ==
  <<0>> \o SelectSeq([i \in 1..Len(raw) |-> i], LAMBDA i : raw[i] = ",") \o <<Len(raw) + 1>>

\* the text between two cuts without its leading and trailing whitespace
Trimmed(raw, lo, hi) ==
  LET solid == {i \in (lo + 1)..(hi - 1) : raw[i] \notin {" ", "\n", "\n\n", "\n    "}}
  IN  IF solid = {} THEN <<>>
      ELSE SubSeq(raw, CHOOSE i \in solid : \A j \in solid : i <= j,
                       CHOOSE i \in solid : \A j \in solid : i >= j)

\* C13: impacted_standards is a non-empty sequence with one element per
\* comma-separated piece of the raw classification text, in order, each
\* piece without its leading and trailing whitespace; empty and repeated
\* pieces are kept.
C13_PlannerSplit ==
  planner_ran =>
    LET raw == run_calls[1].reply
        cuts == Cuts(raw)
    IN  /\ state.user_request # <<>>
        /\ Len(state.impacted_standards) >= 1
        /\ Len(state.impacted_standards) = Len(cuts) - 1
        /\ \A k \in 1..Len(state.impacted_standards) :
             state.impacted_standards[k] = Trimmed(raw, cuts[k], cuts[k + 1])

\* an empty piece was kept
C13_Witness ==
  /\ planner_ran
  /\ Len(state.impacted_standards) = 2
  /\ state.impacted_standards[2] = <<>>
  /\ run_calls[1].reply = <<" ", "ISO", " ", "14971", ",", " ">>

\* the fields each stage may write
WriteSet(n) ==
  CASE n = "planner" -> {"impacted_standards"}
    [] n = "data_loader" -> {"loaded_documents"}
    [] n = "autogen_auditor" -> {"audit_findings", "messages"}
    [] n = "compiler" -> {"final_report_content"}
    [] OTHER -> {}

\* C14: within a run a step changes only fields of the write set of the
\* stage that is running (impacted_standards: planner, loaded_documents:
\* loader, audit_findings and the conversation log: audit coordinator,
\* final_report_content: compiler); user_request is changed by no stage.
C14_SingleWriter ==
  [][cli = "invoke" =>
       \A k \in DOMAIN state : state'[k] # state[k] => k \in WriteSet(node)]_vars

\* every stage has written its fields
C14_Witness ==
  /\ node = "END"
  /\ state.user_request = <<"A", "d", "d">>
  /\ state.impacted_standards # <<>>
  /\ DOMAIN state.loaded_documents # {}
  /\ state.audit_findings # <<>>
  /\ state.messages # <<>>
  /\ state.final_report_content # <<>>

\* C15: a stage is about to run only when the fields it reads have been
\* produced: the loader and the audit coordinator find the planner's
\* impacted_standards, the coordinator runs after the loader completed, the
\* compiler finds the coordinator's finding; the conversation is only ever
\* in progress while the coordinator is the stage that runs.
C15_ReadAfterWrite ==
  /\ node \in {"data_loader", "autogen_auditor"} =>
       \E i \in 1..Len(executed) : executed[i] = "planner"
  /\ node \in {"data_loader", "autogen_auditor"} => state.impacted_standards # <<>>
  /\ node = "autogen_auditor" => \E i \in 1..Len(executed) : executed[i] = "data_loader"
  /\ node = "compiler" =>
       /\ \E i \in 1..Len(executed) : executed[i] = "autogen_auditor"
       /\ Len(state.audit_findings) = 1
  /\ chat_status = "running" => node \in {"autogen_auditor", "raised"}
  /\ node \in {"planner", "data_loader"} => chat_history = <<>>

\* the compiler is about to read the finding of a conversation over loaded documents
C15_Witness ==
  /\ node = "compiler"
  /\ Len(state.audit_findings) = 1
  /\ DOMAIN state.loaded_documents = {"SRS", "RMF", "QMS"}
  /\ Len(chat_history) = 2

HasMarker(standards, marker) ==
  \E i \in 1..Len(standards) : \E j \in 1..Len(standards[i]) : standards[i][j] = marker

\* C16: once the planner returned, the run has issued exactly one planner
\* call; once the loader returned, it has issued exactly one SRS call if some
\* standard carries "62304" and none otherwise, likewise one RMF call for
\* "14971", and no other call (none for QMS); the compiler issues none.
C16_OneCallPerNeed ==
  /\ planner_ran => calls_to("planner") = 1
  /\ (planner_ran /\ ~loader_ran /\ node # "raised") => Len(run_calls) = 1
  /\ loader_ran =>
       /\ calls_to("SRS") = (IF HasMarker(state.impacted_standards, "62304") THEN 1 ELSE 0)
       /\ calls_to("RMF") = (IF HasMarker(state.impacted_standards, "14971") THEN 1 ELSE 0)
       /\ Len(run_calls) = 1 + calls_to("SRS") + calls_to("RMF")

\* two standards carry the SRS marker, one call was issued, and the run completed
C16_Witness ==
  /\ node = "END"
  /\ Len(state.impacted_standards) = 2
  /\ \A i \in 1..2 : \E j \in 1..Len(state.impacted_standards[i]) :
       state.impacted_standards[i][j] = "62304"
  /\ calls_to("SRS") = 1
  /\ Len(run_calls) = 2

\* the content of the last sentinel-bearing message of the conversation
LastSentinelText ==
  chat_history[CHOOSE i \in 1..Len(chat_history) :
                 /\ HasSentinel(chat_history[i])
                 /\ \A j \in (i + 1)..Len(chat_history) : ~HasSentinel(chat_history[j])].content

\* C17 as stated: within a run the conversation log only grows by appending,
\* and after the audit coordinator it holds the transcript of the audit loop.
C17_LogIsTranscript ==
  /\ [][cli = "invoke" => IsPrefix(state.messages, state'.messages)]_vars
  /\ [](auditor_ran =>
          state.messages = [i \in 1..Len(chat_history) |-> chat_history[i].content])

\* C17: within a run the conversation log only grows by appending; the audit
\* coordinator appends exactly one message to it, the text of the selected
\* summary message with the sentinel still in it, not the transcript.
C17_LogHoldsSummaryOnly ==
  /\ [][cli = "invoke" => IsPrefix(state.messages, state'.messages)]_vars
  /\ []((cli = "invoke" /\ ~auditor_ran) => state.messages = <<>>)
  /\ [](auditor_ran =>
          /\ Len(state.messages) = 1
          /\ state.messages[1] = LastSentinelText)

\* a four-message conversation left one message in the log
C17_Witness ==
  /\ auditor_ran
  /\ Len(chat_history) = 4
  /\ Len(state.messages) = 1
  /\ state.messages[1] = chat_history[3].content

\* C18: the message that opens the conversation is the audit prompt, it
\* carries the sentinel and is part of the scanned transcript; so the scan
\* always selects a sentinel-bearing message, the details are never the
\* fallback, and when no reply carries the sentinel the details are the
\* opening message without the sentinel and its surrounding whitespace.
C18_PromptCarriesSentinel ==
  /\ chat_history # <<>> =>
       /\ chat_history[1].name = "Compliance_Manager"
       /\ HasSentinel(chat_history[1])
  /\ auditor_ran =>
       /\ \E j \in 1..Len(state.messages[1]) : state.messages[1][j] = "AUDIT_COMPLETE"
       /\ state.audit_findings[1].details # <<"No summary found.">>
       /\ (\A i \in 2..Len(chat_history) : ~HasSentinel(chat_history[i])) =>
            LET c == chat_history[1].content
                d == state.audit_findings[1].details
            IN  /\ d = SelectSeq(SubSeq(c, 2, Len(c) - 1), LAMBDA t : t # "AUDIT_COMPLETE")
                /\ c[1] \in Whitespace /\ c[Len(c)] \in Whitespace
                /\ d[1] \notin Whitespace /\ d[Len(d)] \notin Whitespace

\* three replies without the sentinel, and the finding is the opening prompt
C18_Witness ==
  /\ auditor_ran
  /\ Len(chat_history) = 4
  /\ \A i \in 2..4 : ~HasSentinel(chat_history[i])
  /\ state.audit_findings[1].details[1] =
       "Please conduct a compliance audit for only the following standards: "

\* C19: every run starts from a state that holds the stripped input as
\* user_request and nothing else, whatever earlier runs left behind; at the
\* end of a run, the first or a later one, the state holds one finding, one
\* logged message and the documents of this run's standards only.
C19_FreshStatePerRun ==
  /\ [][(cli = "prompt" /\ cli' = "invoke") =>
          /\ state'.user_request = RStrip(LStrip(typed'))
          /\ state'.impacted_standards = <<>>
          /\ DOMAIN state'.loaded_documents = {}
          /\ state'.audit_findings = <<>>
          /\ state'.final_report_content = <<>>
          /\ state'.messages = <<>>]_vars
  /\ [](node = "END" =>
          /\ Len(state.audit_findings) = 1
          /\ Len(state.messages) = 1
          /\ \A k \in {"SRS", "RMF", "QMS"} :
               k \in DOMAIN state.loaded_documents
                 <=> HasMarker(state.impacted_standards, Marker(k)))

\* the second run of a session ended, with fewer documents than the first could have left
C19_Witness ==
  /\ runs = 2
  /\ node = "END"
  /\ Len(state.audit_findings) = 1
  /\ Len(state.messages) = 1
  /\ DOMAIN state.loaded_documents = {}

CountOf(seq, x) == Len(SelectSeq(seq, LAMBDA e : e = x))

\* C20: a run that was started reaches the terminal state unless an external
\* call fails; before the compiler ran the report is empty, and at the
\* terminal state the compiler has run exactly once and the report is
\* non-empty.
C20_RunTerminates ==
  /\ (cli = "invoke") ~> (node = "END" \/ node = "raised")
  /\ []((cli = "invoke" /\ ~compiler_ran) => state.final_report_content = <<>>)
  /\ [](node = "END" =>
          /\ CountOf(executed, "compiler") = 1
          /\ state.final_report_content # <<>>)

\* a run with three completion calls, all of which returned, at the terminal state
C20_Witness ==
  /\ node = "END"
  /\ Len(run_calls) = 3
  /\ CountOf(executed, "compiler") = 1
  /\ state.final_report_content # <<>>

====
